---- MODULE Spec2Model ----
(***************************************************************************)
(* Model of internal/pdcp/writer.go: the UploadWriter.  A Collector        *)
(* goroutine reads newline-terminated records from a pipe into the bounded *)
(* channel ch; the Scheduler (the select loop of autoCommit) accumulates   *)
(* them in buff and uploads buff on a timer tick, on size overflow, on     *)
(* cancellation and on end of stream; Close() cancels, waits for done and  *)
(* closes the writer side of the pipe.                                     *)
(*                                                                         *)
(* A record is identified by its position in the stream (1, 2, ...) and    *)
(* has a byte length sizes[id].  A byte sequence made of whole records     *)
(* (the buffer, a request body) is the sequence of the records' ids; its   *)
(* byte length is the sum of their lengths.                                *)
(***************************************************************************)
EXTENDS Integers, Sequences, FiniteSets, TLC

\* ---------------------------------------------------------------- bounds
NumRecords == 3
MaxTicks == 1
\* records written in the specifications SpecAPI and SpecLive
ApiRecords == 2

\* ------------------------------------------------------------- constants
MiB == 1024 * 1024
MaxChunkSize == 1024 * 1024 * 4
ChanCap == 4
StatusOK == 200

\* byte lengths a record written to the stream may have: two records of the
\* first fill a chunk exactly and a third overflows it, one record of the
\* second is larger than a chunk on its own
RecordSizes == {2 * MiB, 5 * MiB}

NoID == ""

\* ids a caller may pass to SetScanID
CallerIDs == {"", "cfg"}
NoReq == [method |-> "", path |-> <<>>, body |-> <<>>]
NoLine == 0

uploadEndpoint == <<"v1", "scans", "import">>
appendEndpoint(id) == <<"v1", "scans", id, "import">>

\* what the remote endpoint (and the transport) may answer to one request
Responses ==
  { [doErr |-> TRUE,  readErr |-> FALSE, StatusCode |-> 0,   bin |-> "" ],
    [doErr |-> FALSE, readErr |-> TRUE,  StatusCode |-> 200, bin |-> "" ],
    [doErr |-> FALSE, readErr |-> FALSE, StatusCode |-> 500, bin |-> "{\"id\":\"s1\"}" ],
    [doErr |-> FALSE, readErr |-> FALSE, StatusCode |-> 200, bin |-> "not json" ],
    [doErr |-> FALSE, readErr |-> FALSE, StatusCode |-> 200, bin |-> "{}" ],
    [doErr |-> FALSE, readErr |-> FALSE, StatusCode |-> 200, bin |-> "{\"id\":\"s1\"}" ],
    [doErr |-> FALSE, readErr |-> FALSE, StatusCode |-> 200, bin |-> "{\"id\":\"s2\"}" ] }

VARIABLES
  \* the stream
  sizes,      \* sizes[i]: byte length of the i-th record written to the stream
  pipe,       \* records written and not yet read by the Collector
  wclosed,    \* the writer side of the pipe is closed
  \* the Collector goroutine
  cpc,        \* "read" | "send" | "stopped"
  data,       \* the record the Collector holds between ReadString and ch <- data
  counter,    \* u.counter
  ch,         \* the channel ch (capacity 4)
  chClosed,   \* close(ch) has run
  \* the Scheduler (select loop of autoCommit)
  pc,         \* "select" | "uploading" | "closed"
  trigger,    \* which case of the select started the upload in flight
  line,       \* the record last received from ch
  buff,       \* the buffer
  req,        \* the request in flight
  scanID,     \* u.scanID
  tick,       \* a tick is pending on ticker.C
  ticks,      \* number of ticks the ticker has delivered
  summary,    \* the final log line
  \* shutdown
  cancelled,  \* ctx.Done() is closed
  done,       \* number of values in the channel u.done (capacity 1)
  callerPc,   \* position of the caller in Close()
  \* history
  h           \* observations over the run, used by the properties only

vars == <<sizes, pipe, wclosed, cpc, data, counter, ch, chClosed, pc, trigger,
          line, buff, req, scanID, tick, ticks, summary, cancelled,
          done, callerPc, h>>

streamVars == <<sizes, pipe, wclosed>>
collVars == <<cpc, data, counter>>
chanVars == <<ch, chClosed>>
schedVars == <<pc, trigger, line, buff, req, scanID, summary, done>>
closeVars == <<cancelled, callerPc>>
tickVars == <<tick, ticks>>

\* ---------------------------------------------------------------- helpers
RECURSIVE BytesLen(_, _)
\* byte length of a sequence of records
BytesLen(s, sz) == IF s = <<>> THEN 0 ELSE sz[Head(s)] + BytesLen(Tail(s), sz)

Range(s) == {s[i] : i \in 1..Len(s)}

\* json.Unmarshal(bin, &uploadResp): an error, or the decoded ID field
Unmarshal(bin) ==
  CASE bin = "{}" -> [err |-> FALSE, ID |-> ""]
    [] bin = "{\"id\":\"s1\"}" -> [err |-> FALSE, ID |-> "s1"]
    [] bin = "{\"id\":\"s2\"}" -> [err |-> FALSE, ID |-> "s2"]
    [] OTHER -> [err |-> TRUE, ID |-> ""]

\* getRequest building a create request whatever the scan id
getRequest_AlwaysCreate(id, bin) ==
  [method |-> "POST", path |-> uploadEndpoint, body |-> bin]

\* getRequest: the request built for a body under the current scan id
getRequest(id, bin) ==
  IF id = NoID
  THEN [method |-> "POST", path |-> uploadEndpoint, body |-> bin]
  ELSE [method |-> "PATCH", path |-> appendEndpoint(id), body |-> bin]

\* upload: the error it returns for a response ("nil" when it succeeds)
uploadErr(r) ==
  IF r.doErr THEN "could not upload results"
  ELSE IF r.readErr THEN "could not get id from response"
  ELSE IF r.StatusCode # StatusOK THEN "could not upload results got status code"
  ELSE IF Unmarshal(r.bin).err THEN "could not unmarshal response"
  ELSE "nil"

\* upload adopting the id of a response without looking at its status
uploadScanID_AnyStatus(id, r) ==
  IF ~r.doErr /\ ~r.readErr /\ Unmarshal(r.bin).ID # "" /\ id = NoID
  THEN Unmarshal(r.bin).ID
  ELSE id

\* upload adopting the id of every successful response
uploadScanID_Overwrite(id, r) ==
  IF uploadErr(r) = "nil" /\ Unmarshal(r.bin).ID # ""
  THEN Unmarshal(r.bin).ID
  ELSE id

\* upload: the scan id after a response has been handled
uploadScanID(id, r) ==
  IF uploadErr(r) = "nil" /\ Unmarshal(r.bin).ID # "" /\ id = NoID
  THEN Unmarshal(r.bin).ID
  ELSE id

\* uploadChunk never resetting the buffer
uploadChunkBuff_NeverReset(b, err) == b

\* uploadChunk resetting the buffer whatever the upload returned
uploadChunkBuff_AlwaysReset(b, err) == <<>>

\* uploadChunk: the buffer after the upload returned err
uploadChunkBuff(b, err) == IF err = "nil" THEN <<>> ELSE b

\* the overflow test with >= for >
Overflows_AtLimit(b, l, sz) == BytesLen(b, sz) + sz[l] >= MaxChunkSize

\* the overflow test looking at the buffer alone
Overflows_BufferOnly(b, l, sz) == BytesLen(b, sz) > MaxChunkSize

\* the overflow test of the record case
Overflows(b, l, sz) == BytesLen(b, sz) + sz[l] > MaxChunkSize

\* the deferred function with the test on the scan id inverted
Summary_Inverted(id, n) ==
  IF id # NoID THEN [kind |-> "skipped", count |-> 0, link |-> NoID]
  ELSE [kind |-> "uploaded", count |-> n, link |-> id]

\* the deferred function's log line
Summary(id, n) ==
  IF id = NoID THEN [kind |-> "skipped", count |-> 0, link |-> NoID]
  ELSE [kind |-> "uploaded", count |-> n, link |-> id]

NoSummary == [kind |-> "none", count |-> 0, link |-> NoID]

\* buff.Len() > 1 for buff.Len() > 0
NonEmpty_MoreThanOne(b) == Len(b) > 1

\* buff.Len() > 0
NonEmpty(b) == Len(b) > 0

\* buff.WriteString(line) writing in front of the content
WriteString_Prepend(b, l) == <<l>> \o b

\* buff.WriteString(line)
WriteString(b, l) == Append(b, l)

\* the case returning when the upload failed
Returns_OnError(trig, err) == trig \in {"ctx", "eof"} \/ err # "nil"

\* whether the case that started the upload returns from autoCommit after it
Returns(trig, err) == trig \in {"ctx", "eof"}

\* the deferred function not sending on u.done
SendDone_Skipped(d) == d

\* u.done <- struct{}{}
SendDone(d) == d + 1

\* Close() not waiting for u.done
DoneReady_NoWait(d) == TRUE

\* Close(): <-u.done may proceed
DoneReady(d) == d > 0

\* ------------------------------------------------------------------- Init
Init ==
  /\ sizes = <<>> /\ pipe = <<>> /\ wclosed = FALSE
  /\ cpc = "read" /\ data = NoLine /\ counter = 0
  /\ ch = <<>> /\ chClosed = FALSE
  /\ pc = "select" /\ trigger = "none" /\ line = NoLine /\ buff = <<>>
  /\ req = NoReq /\ scanID = NoID
  /\ tick = FALSE /\ ticks = 0 /\ summary = NoSummary
  /\ cancelled = FALSE /\ done = 0 /\ callerPc = "open"
  /\ h = [nReq |-> 0, sent |-> {}, appendSent |-> FALSE,
          cancelNonEmpty |-> FALSE, afterCancel |-> 0, doneSends |-> 0,
          retained |-> <<>>, admitted |-> <<>>, failed |-> FALSE,
          recovered |-> FALSE, sawOtherID |-> FALSE,
          uploaded |-> <<>>]

\* ------------------------------------------------------------ the stream
\* the producer writes one complete record of s bytes to the writer side
WriteRecord(s) ==
  /\ ~wclosed /\ cpc # "stopped" /\ pipe = <<>>
  /\ sizes' = Append(sizes, s)
  /\ pipe' = Append(pipe, Len(sizes) + 1)
  /\ UNCHANGED <<wclosed, collVars, chanVars, schedVars, closeVars, tickVars, h>>

\* a write, of the first NumRecords records of the stream
Write(s) == Len(sizes) < NumRecords /\ WriteRecord(s)

\* the stream ends (the writer side is closed) before Close() is called
StreamEnd ==
  /\ ~wclosed /\ callerPc = "open"
  /\ wclosed' = TRUE
  /\ UNCHANGED <<sizes, pipe, collVars, chanVars, schedVars, closeVars, tickVars, h>>

\* ---------------------------------------------------------- the Collector
\* reader.ReadString('\n') returns a record: count it
CollectorRead ==
  /\ cpc = "read" /\ pipe # <<>>
  /\ data' = Head(pipe) /\ pipe' = Tail(pipe)
  /\ counter' = counter + 1
  /\ cpc' = "send"
  /\ UNCHANGED <<sizes, wclosed, chanVars, schedVars, closeVars, tickVars, h>>

\* ch <- data, blocking while the channel is full
CollectorSend ==
  /\ cpc = "send" /\ Len(ch) < ChanCap
  /\ ch' = Append(ch, data)
  /\ data' = NoLine /\ cpc' = "read"
  /\ UNCHANGED <<streamVars, counter, chClosed, schedVars, closeVars, tickVars, h>>

\* reader.ReadString fails: return, running close(ch) and r.Close()
CollectorStop ==
  /\ cpc = "read" /\ pipe = <<>> /\ wclosed
  /\ cpc' = "stopped" /\ chClosed' = TRUE
  /\ UNCHANGED <<streamVars, data, counter, ch, schedVars, closeVars, tickVars, h>>

\* --------------------------------------------------------------- the timer
\* the ticker delivers a tick (dropped when one is already pending); ticks
\* after autoCommit returned are left out, nothing receives from ticker.C then
Tick ==
  /\ pc # "closed" /\ ~tick /\ ticks < MaxTicks
  /\ tick' = TRUE /\ ticks' = ticks + 1
  /\ UNCHANGED <<streamVars, collVars, chanVars, schedVars, closeVars, h>>

\* ----------------------------------------------------------- the Scheduler
\* uploadChunk(buff) up to client.Do(req): the request is built and sent
StartUpload(trig) ==
  /\ req' = getRequest(scanID, buff)
  /\ pc' = "uploading" /\ trigger' = trig
  /\ h' = [h EXCEPT !.nReq = @ + 1,
                    !.sent = @ \cup Range(buff),
                    !.appendSent = @ \/ scanID # NoID,
                    !.afterCancel = IF cancelled THEN @ + 1 ELSE @]
  /\ UNCHANGED <<buff, scanID, summary, done>>

\* return from autoCommit: the deferred function
Return(id) ==
  /\ pc' = "closed"
  /\ done' = SendDone(done)
  /\ summary' = Summary(id, counter)

\* case <-ctx.Done()
SelectDone ==
  /\ pc = "select" /\ cancelled
  /\ IF NonEmpty(buff)
     THEN StartUpload("ctx")
     ELSE /\ Return(scanID)
          /\ h' = [h EXCEPT !.doneSends = @ + 1]
          /\ UNCHANGED <<trigger, buff, req, scanID>>
  /\ UNCHANGED <<streamVars, collVars, chanVars, line, closeVars, tickVars>>

\* case <-ticker.C
SelectTick ==
  /\ pc = "select" /\ tick
  /\ tick' = FALSE
  /\ IF NonEmpty(buff)
     THEN StartUpload("tick")
     ELSE UNCHANGED <<pc, trigger, buff, req, scanID, summary, done, h>>
  /\ UNCHANGED <<streamVars, collVars, chanVars, line, closeVars, ticks>>

\* case line, ok := <-ch with ok = true
SelectLine ==
  /\ pc = "select" /\ ch # <<>>
  /\ line' = Head(ch) /\ ch' = Tail(ch)
  /\ IF Overflows(buff, Head(ch), sizes)
     THEN StartUpload("overflow")
     ELSE /\ buff' = WriteString(buff, Head(ch))
          /\ h' = [h EXCEPT !.admitted = Append(@, Head(ch))]
          /\ UNCHANGED <<pc, trigger, req, scanID, summary, done>>
  /\ UNCHANGED <<streamVars, collVars, chClosed, closeVars, tickVars>>

\* case line, ok := <-ch with ok = false
SelectClosed ==
  /\ pc = "select" /\ ch = <<>> /\ chClosed
  /\ IF NonEmpty(buff)
     THEN StartUpload("eof")
     ELSE /\ Return(scanID)
          /\ h' = [h EXCEPT !.doneSends = @ + 1]
          /\ UNCHANGED <<trigger, buff, req, scanID>>
  /\ UNCHANGED <<streamVars, collVars, chanVars, line, closeVars, tickVars>>

\* client.Do returns with r; the rest of upload, uploadChunk and of the case
UploadDone(r) ==
  /\ pc = "uploading"
  /\ scanID' = uploadScanID(scanID, r)
  /\ buff' = uploadChunkBuff(buff, uploadErr(r))
  /\ req' = NoReq /\ trigger' = "none"
  /\ IF Returns(trigger, uploadErr(r))
     THEN Return(uploadScanID(scanID, r))
     ELSE pc' = "select" /\ UNCHANGED <<summary, done>>
  /\ h' = [h EXCEPT !.retained = uploadChunkBuff(buff, uploadErr(r)),
                    !.admitted = <<>>,
                    !.failed = (uploadErr(r) # "nil"),
                    !.recovered = @ \/ (uploadErr(r) = "nil" /\ h.failed /\ h.admitted # <<>>),
                    !.sawOtherID = @ \/ (uploadErr(r) = "nil" /\ scanID # NoID
                                          /\ Unmarshal(r.bin).ID \notin {"", scanID}),
                    !.uploaded = IF uploadErr(r) = "nil" THEN @ \o req.body ELSE @,
                    !.doneSends = IF Returns(trigger, uploadErr(r)) THEN @ + 1 ELSE @]
  /\ UNCHANGED <<streamVars, collVars, chanVars, line, closeVars, tickVars>>

\* ----------------------------------------------------------------- Close()
\* u.cancel()
CloseCancel ==
  /\ callerPc = "open"
  /\ cancelled' = TRUE /\ callerPc' = "wait"
  /\ h' = [h EXCEPT !.cancelNonEmpty = (pc = "select" /\ Len(buff) > 0)]
  /\ UNCHANGED <<streamVars, collVars, chanVars, schedVars, tickVars>>

\* <-u.done
CloseWait ==
  /\ callerPc = "wait" /\ DoneReady(done)
  /\ done' = IF done > 0 THEN done - 1 ELSE done
  /\ callerPc' = "gotDone"
  /\ UNCHANGED <<streamVars, collVars, chanVars, pc, trigger, line, buff, req,
                 scanID, summary, cancelled, tickVars, h>>

\* u.StandardWriter.Close(): closes the writer side of the pipe
CloseWriter ==
  /\ callerPc = "gotDone"
  /\ wclosed' = TRUE /\ callerPc' = "closed"
  /\ UNCHANGED <<sizes, pipe, collVars, chanVars, schedVars, cancelled, tickVars, h>>

\* ------------------------------------------------------------- SetScanID
\* SetScanID(id), called by the owner of the writer before it calls Close()
SetScanID(id) ==
  /\ callerPc = "open"
  /\ scanID' = id
  /\ UNCHANGED <<streamVars, collVars, chanVars, pc, trigger, line, buff, req,
                 summary, done, closeVars, tickVars, h>>

\* ------------------------------------------------------------------- Next
Next ==
  \/ \E s \in RecordSizes : Write(s)
  \/ StreamEnd
  \/ CollectorRead
  \/ CollectorSend
  \/ CollectorStop
  \/ Tick
  \/ SelectDone
  \/ SelectTick
  \/ SelectLine
  \/ SelectClosed
  \/ \E r \in Responses : UploadDone(r)
  \/ CloseCancel
  \/ CloseWait
  \/ CloseWriter

Spec == Init /\ [][Next]_vars

\* a write, of the first ApiRecords records of the stream
ApiWrite(s) == Len(sizes) < ApiRecords /\ WriteRecord(s)

\* the writer with its owner also calling SetScanID, the stream ending only
\* by Close()
NextAPI ==
  \/ \E s \in RecordSizes : ApiWrite(s)
  \/ CollectorRead
  \/ CollectorSend
  \/ CollectorStop
  \/ Tick
  \/ SelectDone
  \/ SelectTick
  \/ SelectLine
  \/ \E r \in Responses : UploadDone(r)
  \/ CloseCancel
  \/ CloseWait
  \/ CloseWriter
  \/ \E id \in CallerIDs : SetScanID(id)

SpecAPI == Init /\ [][NextAPI]_vars

\* ------------------------------------------------------- a full queue
\* the records written in the specification SpecQueue: one more than the
\* channel holds
QueueRecords == 5

\* a write of a record of 2 MiB, of the first QueueRecords of the stream
QueueWrite == Len(sizes) < QueueRecords /\ WriteRecord(2 * MiB)

\* the writer fed more records than the channel holds and then closed by
\* Close(): no ticks, the stream ending only by Close()
NextQueue ==
  \/ QueueWrite
  \/ CollectorRead
  \/ CollectorSend
  \/ CollectorStop
  \/ SelectDone
  \/ SelectLine
  \/ \E r \in Responses : UploadDone(r)
  \/ CloseCancel
  \/ CloseWait
  \/ CloseWriter

SpecQueue == Init /\ [][NextQueue]_vars

\* ------------------------------------------------- shutdown, with fairness
\* the requests after which the ticker of SpecLive is no longer followed
MaxRequests == 3

\* the ticker delivers a tick, any number of times while the writer has sent
\* fewer than MaxRequests requests
LiveTick ==
  /\ pc # "closed" /\ ~tick /\ h.nReq < MaxRequests
  /\ tick' = TRUE
  /\ UNCHANGED <<streamVars, collVars, chanVars, schedVars, closeVars, ticks, h>>

\* the writer closed by Close() while records arrive and the ticker fires
NextLive ==
  \/ \E s \in RecordSizes : ApiWrite(s)
  \/ CollectorRead
  \/ CollectorSend
  \/ CollectorStop
  \/ LiveTick
  \/ SelectDone
  \/ SelectTick
  \/ SelectLine
  \/ \E r \in Responses : UploadDone(r)
  \/ CloseCancel
  \/ CloseWait
  \/ CloseWriter

\* client.Do returns in the end; the select, which picks at random among its
\* ready cases, takes ctx.Done in the end when it is ready again and again;
\* the goroutine in Close() keeps running
Fairness ==
  /\ WF_vars(\E r \in Responses : UploadDone(r))
  /\ SF_vars(SelectDone)
  /\ WF_vars(CloseWait)
  /\ WF_vars(CloseWriter)

SpecLive == Init /\ [][NextLive]_vars /\ Fairness

\* ------------------------------------------------- the scenario of C11
\* the length standing for "1 MiB": a quarter of MaxChunkSize, or the same
\* scenario at half and at a quarter of that scale
ScenarioUnits == {MaxChunkSize \div 4, MaxChunkSize \div 8, MaxChunkSize \div 16}

\* the four records of the scenario: 1, 1, 0.5 and 1 unit long
ScenarioSizes(u) == <<u, u, u \div 2, u>>

\* the endpoint's answer to the first request of the scenario
ScenarioResponse ==
  [doErr |-> FALSE, readErr |-> FALSE, StatusCode |-> 200, bin |-> "{\"id\":\"s1\"}"]

\* the records are written in order, the fourth once the id is "s1"
ScenarioWrite ==
  \E u \in ScenarioUnits :
    /\ Len(sizes) < Len(ScenarioSizes(u))
    /\ sizes # <<>> => sizes[1] = u
    /\ Len(sizes) = 3 => scanID = "s1"
    /\ WriteRecord(ScenarioSizes(u)[Len(sizes) + 1])

\* the timer fires once, when the Scheduler holds the first three records
ScenarioTick == ticks = 0 /\ buff = <<1, 2, 3>> /\ Tick

\* the first request is answered {"id":"s1"}, later ones in any way
ScenarioUploadDone ==
  \E r \in Responses : (h.nReq = 1 => r = ScenarioResponse) /\ UploadDone(r)

\* Close() is called once the write of the fourth record has returned
ScenarioClose == Len(sizes) = 4 /\ pipe = <<>> /\ CloseCancel

NextScenario ==
  \/ ScenarioWrite
  \/ CollectorRead
  \/ CollectorSend
  \/ CollectorStop
  \/ ScenarioTick
  \/ SelectDone
  \/ SelectTick
  \/ SelectLine
  \/ ScenarioUploadDone
  \/ ScenarioClose
  \/ CloseWait
  \/ CloseWriter

SpecScenario == Init /\ [][NextScenario]_vars

TypeOK ==
  /\ pc \in {"select", "uploading", "closed"}
  /\ cpc \in {"read", "send", "stopped"}
  /\ callerPc \in {"open", "wait", "gotDone", "closed"}
  /\ Len(ch) <= ChanCap /\ done \in 0..1

\* ------------------------------------------------------------- properties
RECURSIVE Sum(_)
\* sum of a sequence of numbers
Sum(q) == IF q = <<>> THEN 0 ELSE Head(q) + Sum(Tail(q))

\* the Scheduler's step starts an upload / finishes the upload in flight
Starts == pc = "select" /\ pc' = "uploading"
Finishes == pc = "uploading" /\ pc' # "uploading"

\* C1: a record that overflows the buffer causes exactly one flush attempt,
\* whose body is the prior buffer without the record, and once that flush has
\* returned the buffer ends with the record: it is the record alone when the
\* flush succeeded, the old content followed by the record when it failed.
C1_OverflowFlushThenAccept ==
  [][ /\ (Starts /\ trigger' = "overflow") =>
           /\ h'.nReq = h.nReq + 1
           /\ req'.body = buff
           /\ line' \notin Range(req'.body)
      /\ (Finishes /\ trigger = "overflow") =>
           /\ h'.nReq = h.nReq
           /\ buff' = IF h'.failed THEN Append(buff, line) ELSE <<line>> ]_vars

\* C2: when the Scheduler is Closed, every record the Collector has read and
\* counted has been part of the body of at least one upload request.
C2_NoRecordDropped ==
  pc = "closed" => \A i \in 1..counter : i \in h.sent

\* C3: a failed upload leaves the buffer unchanged; the buffer becomes empty
\* only when an upload succeeds; every request carries the whole buffer, and
\* the buffer is the content retained by the last failure followed by the
\* records admitted since, so the next successful flush sends exactly that.
C3_FailedUploadRetainsBuffer ==
  [][ /\ (Finishes /\ h'.failed) => buff' = buff
      /\ (buff # <<>> /\ buff' = <<>>) => (Finishes /\ ~h'.failed)
      /\ Starts => req'.body = buff
      /\ (Finishes /\ ~h'.failed /\ h.failed) =>
           req.body = h.retained \o h.admitted ]_vars

\* C3 witness: an upload succeeded after a failure, with records admitted in
\* between, and emptied the buffer.
C3_Witness ==
  /\ h.recovered /\ ~h.failed /\ buff = <<>> /\ pc = "select"
  /\ Cardinality(h.sent) >= 2

\* C4: the scan id changes only from absent to a non-empty id, in the step
\* that finishes a successful upload; once set it never changes, also when a
\* later successful response carries another id.
C4_ScanIDSetOnce ==
  [][ scanID' # scanID =>
        /\ scanID = NoID
        /\ Finishes /\ ~h'.failed
        /\ scanID' \in {Unmarshal(r.bin).ID : r \in Responses} \ {""} ]_vars

\* C4 witness: the id is set and a later successful response carried another.
C4_Witness == scanID = "s1" /\ h.sawOtherID

\* C5: a request built while no scan id is set is POST /v1/scans/import, a
\* request built when the id is s is PATCH /v1/scans/s/import, and after an
\* append request no create request is built.
C5_CreateThenAppend ==
  [][ Starts =>
        /\ scanID = NoID =>
             req'.method = "POST" /\ req'.path = <<"v1", "scans", "import">>
        /\ scanID # NoID =>
             req'.method = "PATCH" /\ req'.path = <<"v1", "scans", scanID, "import">>
        /\ h.appendSent => req'.method = "PATCH" ]_vars

\* C5 witness: a second append request in flight.
C5_Witness ==
  pc = "uploading" /\ h.appendSent /\ h.nReq >= 3 /\ req.path = <<"v1", "scans", "s2", "import">>

\* C6: while the stream is open, no tick was delivered, nothing was cancelled
\* and the records written add up to at most MaxChunkSize, no request was sent.
C6_LazyBatching ==
  (~wclosed /\ ticks = 0 /\ ~cancelled /\ Sum(sizes) <= MaxChunkSize) => h.nReq = 0

\* C6 witness: several records filling the buffer exactly to MaxChunkSize.
C6_Witness ==
  /\ ~wclosed /\ ticks = 0 /\ ~cancelled
  /\ Len(buff) >= 2 /\ BytesLen(buff, sizes) = MaxChunkSize /\ h.nReq = 0

\* C7 as stated: after cancellation is signalled while the Scheduler waits
\* with a non-empty buffer, at most one flush attempt is started, and when the
\* Scheduler is Closed exactly one was, and the completion signal was sent once.
C7_ExactlyOneFlushAfterCancel ==
  h.cancelNonEmpty =>
    /\ h.afterCancel <= 1
    /\ pc = "closed" => (h.afterCancel = 1 /\ h.doneSends = 1)

\* C7 amended: when the Scheduler takes the cancellation case with a
\* non-empty buffer it starts exactly one flush, and when that flush returns,
\* whatever its outcome, the Scheduler is Closed with no further request; it
\* never closes from the select with a non-empty buffer, and the completion
\* signal is sent exactly once, in the step that closes.
C7_OneFlushOnceCancelObserved ==
  [][ /\ (Starts /\ trigger' = "ctx") =>
           (cancelled /\ buff # <<>> /\ h'.nReq = h.nReq + 1 /\ req'.body = buff)
      /\ (Finishes /\ trigger = "ctx") => (pc' = "closed" /\ h'.nReq = h.nReq)
      /\ (pc = "select" /\ pc' = "closed") => buff = <<>>
      /\ pc = "closed" => (pc' = "closed" /\ h'.nReq = h.nReq)
      /\ h'.doneSends = (IF pc' = "closed" THEN 1 ELSE 0)
      /\ (pc # "closed" /\ pc' = "closed") => done' = done + 1
      /\ pc' = pc => (done' <= done) ]_vars

\* C7 witness: Closed after the cancellation flush failed, a tick having
\* caused another flush between the cancellation and its observation.
C7_Witness ==
  /\ pc = "closed" /\ ~chClosed /\ buff # <<>>
  /\ h.cancelNonEmpty /\ h.afterCancel = 2 /\ h.doneSends = 1

C9_ShutdownOrdering ==
  [][ /\ callerPc' # "open" => cancelled'
      /\ callerPc' \in {"gotDone", "closed"} =>
           /\ pc' = "closed" /\ req' = NoReq
           /\ h'.doneSends = 1
      /\ callerPc \in {"gotDone", "closed"} => h'.nReq = h.nReq
      /\ (wclosed' /\ ~wclosed /\ callerPc # "open") => callerPc = "gotDone" ]_vars

\* C9 witness: Close() returned after a flush that began after cancellation.
C9_Witness == callerPc = "closed" /\ wclosed /\ h.afterCancel >= 1

\* C10: the buffer is never longer than MaxChunkSize.
C10_BufferBounded == BytesLen(buff, sizes) <= MaxChunkSize

\* C10 witness: after a failed flush the buffer kept its content and the
\* record that would overflow it stayed out.
C10_Witness ==
  /\ pc = "select" /\ h.failed /\ buff # <<>> /\ line # NoLine
  /\ line \notin Range(buff) /\ Overflows(buff, line, sizes)

\* C13: the Scheduler leaves Running only by taking the cancellation case or
\* the closed-queue case of the select (directly, or after the flush that
\* case started); an upload started by the timer or by an overflow, failed or
\* not, ends with the Scheduler back in its select.
C13_ErrorsDoNotTerminate ==
  [][ /\ (pc = "select" /\ pc' = "closed") =>
           (cancelled \/ (chClosed /\ ch = <<>>))
      /\ (pc = "uploading" /\ pc' = "closed") => trigger \in {"ctx", "eof"}
      /\ (Starts /\ trigger' = "ctx") => cancelled
      /\ (Starts /\ trigger' = "eof") => (chClosed /\ ch = <<>>)
      /\ (Finishes /\ trigger \in {"tick", "overflow"}) => pc' = "select" ]_vars

\* C13 witness: after a failed flush the Scheduler went on to admit a record.
C13_Witness ==
  pc = "select" /\ h.failed /\ h.retained # <<>> /\ h.admitted # <<>> /\ ~cancelled

\* C14: cancellation signalled while an upload is in flight changes neither
\* the request nor the buffer nor the scan id; the upload then finishes with
\* its result applied (buffer emptied on success, retained and the id
\* unchanged on failure) and starts no other request; the cancellation case
\* is taken only from the select, so an upload started by the timer or an
\* overflow returns to the select first.
C14_CancellationIsCooperative ==
  [][ /\ (pc = "uploading" /\ ~cancelled /\ cancelled') =>
           (pc' = "uploading" /\ req' = req /\ buff' = buff /\ scanID' = scanID)
      /\ (pc = "uploading" /\ cancelled) =>
           \/ pc' = "uploading" /\ req' = req /\ buff' = buff /\ scanID' = scanID
           \/ /\ Finishes /\ h'.nReq = h.nReq
              /\ buff' = IF h'.failed THEN buff ELSE <<>>
              /\ h'.failed => scanID' = scanID
              /\ h'.uploaded = IF h'.failed THEN h.uploaded ELSE h.uploaded \o req.body
              /\ trigger \in {"tick", "overflow"} => pc' = "select"
      /\ (trigger' = "ctx" /\ trigger # "ctx") => pc = "select" ]_vars

\* C14 witness: an upload in flight when cancellation was signalled has
\* failed, its content is retained, and the Scheduler is back in its select
\* with the cancellation not yet taken.
C14_Witness ==
  /\ pc = "select" /\ cancelled /\ h.afterCancel = 0 /\ ~h.cancelNonEmpty
  /\ h.failed /\ h.retained # <<>> /\ buff = h.retained

\* a sequence of record ids in the order the Collector produced them
Ordered(q) == \A i, j \in 1..Len(q) : i < j => q[i] < q[j]

\* C15: no request is started while one is in flight, and the bodies of the
\* successful uploads, concatenated in upload order, list records in the
\* order the Collector produced them, none of them twice.
C15_SequentialOrdered ==
  [][ /\ pc = "uploading" => (h'.nReq = h.nReq /\ (pc' = "uploading" => req' = req))
      /\ (pc = "uploading") <=> (req # NoReq \/ trigger # "none")
      /\ Ordered(h'.uploaded) ]_vars

\* C15 witness: two successful uploads carrying the three records.
C15_Witness ==
  h.sawOtherID /\ h.uploaded = <<1, 2, 3>> /\ h.nReq = 2

\* C18: a request in flight never has an empty body.
C18_NoEmptyBody == pc = "uploading" => req.body # <<>>

\* C19: the count of an 'uploaded' summary is the number of records in the
\* successfully uploaded chunks.
C19_SummaryCountsUploaded ==
  (pc = "closed" /\ summary.kind = "uploaded") => summary.count = Len(h.uploaded)

\* C11: in the scenario the first request is the create request with the
\* three records in order (2.5 units long), its answer sets the id to "s1", the
\* second request is the append request to /v1/scans/s1/import with the
\* fourth record alone, there is no third request, and the Scheduler closes
\* having sent exactly these two.
C11_Scenario ==
  [][ /\ Starts =>
           /\ h.nReq < 2
           /\ h.nReq = 0 =>
                /\ req' = [method |-> "POST", path |-> <<"v1", "scans", "import">>,
                           body |-> <<1, 2, 3>>]
                /\ 2 * BytesLen(req'.body, sizes) = 5 * sizes[1]
           /\ h.nReq = 1 =>
                req' = [method |-> "PATCH", path |-> <<"v1", "scans", "s1", "import">>,
                        body |-> <<4>>]
      /\ (Finishes /\ h.nReq = 1) => scanID' = "s1"
      /\ pc' = "closed" => h'.nReq = 2 ]_vars

C17_CollectorNeverStuck ==
  (wclosed /\ pc = "closed") =>
    \/ cpc = "stopped"
    \/ cpc = "read"
    \/ cpc = "send" /\ Len(ch) < ChanCap

\* C16: once Close() has signalled cancellation, the Scheduler in the end
\* reaches Closed having sent the completion signal once, and Close() returns,
\* whatever records and ticks arrive in between.
C16_ShutdownTerminates ==
  cancelled ~> (pc = "closed" /\ h.doneSends = 1 /\ callerPc = "closed")

\* C16 witness: Close() has returned although, after the cancellation, the
\* Scheduler first served a tick and a record, each with an upload of its own,
\* before it took the cancellation case.
C16_Witness ==
  /\ callerPc = "closed" /\ pc = "closed" /\ h.doneSends = 1
  /\ h.afterCancel >= 2 /\ tick

====
